---- MODULE Spec2Model ----
(***************************************************************************)
(* Model of the chat delivery pipeline of IMJM-custom.                     *)
(*                                                                         *)
(* WebSocketService (IMJM-client/src/services/chat/WebSocketService.ts) is *)
(* a singleton holding one STOMP client reference, the current userId and  *)
(* a listener registry.  The STOMP transport (the Client objects the       *)
(* service creates) is the environment: it connects, closes, reconnects    *)
(* and delivers frames, and every such step runs the callback the service  *)
(* installed for it.  JavaScript runs each callback to completion, so each *)
(* action below is one whole handler; an async function is split at its    *)
(* await.                                                                  *)
(*                                                                         *)
(* AdminFileUploadService (the upload adapter) is modelled by its one call *)
(* in progress, axios.post being the environment that answers each upload. *)
(* NCPObjectStorageService (the storage adapter) is modelled over a bucket *)
(* of two folders; the S3 client is the environment, a listing of which    *)
(* holds one page of keys.                                                 *)
(***************************************************************************)
EXTENDS Integers, Sequences, FiniteSets, TLC

VARIABLES
    client,     \* this.client: 0 is null, otherwise an index into clients
    userId,     \* this.userId
    listeners,  \* this.listeners: event class -> sequence of callbacks
    clients,    \* every Client object the service has created, in creation order
    sends,      \* sendMessageWithPhotos calls suspended at `await axios.get`
    stamps,     \* history: for each registered callback, when it was registered
    nextStamp,  \* history: the number of addListener calls so far, plus one
    last,       \* history: what the handler that ran last did
    up,         \* AdminFileUploadService: the upload call made last
    bucket,     \* NCPObjectStorageService: the number of objects in each folder
    store       \* history: what the storage operation that ran last did

vars == <<client, userId, listeners, clients, sends, stamps, nextStamp, last,
          up, bucket, store>>
\* the state of the upload adapter and of the storage adapter
adapters == <<up, bucket, store>>
\* the state of the chat service, its history apart
service == <<client, userId, listeners, clients, sends, stamps, nextStamp>>

----------------------------------------------------------------------------
(* Bounds *)

MaxClients == 2     \* Client objects created by initialize
MaxRegs == 3        \* addListener calls
MaxPending == 1     \* sends awaiting the room-existence check
MaxSubs == 4        \* subscriptions held by one client

UserIds == {"u1", "u2"}
NoUser == "null"
Callbacks == {"f", "g"}
EventNames == {"message", "error"}

----------------------------------------------------------------------------
(* Sequences, as the JavaScript array methods use them *)

RemoveAt(s, i) == SubSeq(s, 1, i - 1) \o SubSeq(s, i + 1, Len(s))

\* Array.prototype.indexOf: the first position holding x; 0 stands for -1
\* (positions are 1-based here).
IndexOf(s, x) ==
    IF \E i \in 1..Len(s) : s[i] = x
    THEN CHOOSE i \in 1..Len(s) : s[i] = x /\ \A j \in 1..(i - 1) : s[j] # x
    ELSE 0

Range(s) == { s[i] : i \in 1..Len(s) }

----------------------------------------------------------------------------
(* The listener registry.  A registry value is                             *)
(*   [ls |-> listeners, st |-> stamps, nx |-> nextStamp].                  *)

\* mutant of addListener: unshift instead of push
AddListenerFront(reg, event, cb) ==
    [ ls |-> [reg.ls EXCEPT ![event] = <<cb>> \o @],
      st |-> [reg.st EXCEPT ![event] = <<reg.nx>> \o @],
      nx |-> reg.nx + 1 ]

\* addListener(event, callback): push
addListener(reg, event, cb) ==
    [ ls |-> [reg.ls EXCEPT ![event] = Append(@, cb)],
      st |-> [reg.st EXCEPT ![event] = Append(@, reg.nx)],
      nx |-> reg.nx + 1 ]

\* removeListener(event, callback): splice(indexOf(callback), 1)
removeListener(reg, event, cb) ==
    LET index == IndexOf(reg.ls[event], cb)
    IN  IF index # 0
        THEN [ reg EXCEPT !.ls[event] = RemoveAt(@, index),
                          !.st[event] = RemoveAt(@, index) ]
        ELSE reg

\* What a callback does when it is invoked: nothing, raise, or call
\* removeListener / addListener for the event class being notified.
Ok == [kind |-> "ok", target |-> "-"]
Raise == [kind |-> "raise", target |-> "-"]
Behaviours ==
    {Ok, Raise} \cup [kind : {"remove", "add"}, target : Callbacks]
AnyBehaviour == [Callbacks -> Behaviours]
AllOk == [c \in Callbacks |-> Ok]

\* listener(data): the effect of one invocation on the registry
Invoke(reg, event, b) ==
    CASE b.kind = "remove" -> removeListener(reg, event, b.target)
      [] b.kind = "add"    -> addListener(reg, event, b.target)
      [] OTHER             -> reg

\* mutant of the try/catch around listener(data): a raising listener ends the pass
RECURSIVE ForEachNoCatch(_, _, _, _, _, _)
ForEachNoCatch(reg, event, beh, k, len, invoked) ==
    IF k > len THEN [reg |-> reg, invoked |-> invoked, propagated |-> FALSE]
    ELSE IF k > Len(reg.ls[event])
         THEN ForEachNoCatch(reg, event, beh, k + 1, len, invoked)
         ELSE LET cb == reg.ls[event][k]
              IN  IF beh[cb].kind = "raise"
                  THEN [reg |-> reg, invoked |-> Append(invoked, cb),
                        propagated |-> TRUE]
                  ELSE ForEachNoCatch(Invoke(reg, event, beh[cb]), event, beh,
                                      k + 1, len, Append(invoked, cb))

\* listeners.forEach(listener => { try { listener(data) } catch ... }):
\* Array.prototype.forEach reads the length once, then visits the positions
\* k < len that the array still has when it gets to them.
RECURSIVE ForEach(_, _, _, _, _, _)
ForEach(reg, event, beh, k, len, invoked) ==
    IF k > len THEN [reg |-> reg, invoked |-> invoked, propagated |-> FALSE]
    ELSE IF k > Len(reg.ls[event])
         THEN ForEach(reg, event, beh, k + 1, len, invoked)
         ELSE LET cb == reg.ls[event][k]
              IN  ForEach(Invoke(reg, event, beh[cb]), event, beh,
                          k + 1, len, Append(invoked, cb))

\* mutant of notifyListeners: no try/catch around listener(data)
notifyListenersNoCatch(reg, event, beh) ==
    ForEachNoCatch(reg, event, beh, 1, Len(reg.ls[event]), <<>>)

\* notifyListeners(event, data) with the callbacks behaving as beh says
notifyListeners(reg, event, beh) ==
    ForEach(reg, event, beh, 1, Len(reg.ls[event]), <<>>)

Reg == [ls |-> listeners, st |-> stamps, nx |-> nextStamp]

----------------------------------------------------------------------------
(* History of the last handler *)

NoPass == [event |-> "none"]
NoPub == [destination |-> "none"]
NoSend == [chatRoomId |-> 0]
NoClose == [code |-> 0]

\* a handler that notified nothing, raised nothing and published nothing
Quiet(op, cl) ==
    [ op |-> op,            \* the handler
      cl |-> cl,            \* the transport client it ran for (0: none)
      pass |-> NoPass,      \* its notifyListeners call
      threw |-> "no",       \* the exception it let escape
      pub |-> NoPub,        \* its client.publish call
      ret |-> NoSend,       \* the payload it returned
      dest |-> "-",         \* frame handlers: the destination kind
      sub |-> 0,            \* frame handlers: the subscription of the frame
      body |-> "-",         \* frame handlers: the frame body
      conn |-> client # 0 /\ clients[client].st = "CONNECTED",
                            \* whether this.client was connected beforehand
      check |-> "-",        \* send: the answer of the existence check
      close |-> NoClose,    \* onWebSocketClose: the close event
      call |-> NoSend,      \* send: the suspended call that resumed
      pending |-> Len(sends),   \* sends awaiting their check beforehand
      active |-> { c \in 1..Len(clients) : clients[c].active } ]
                            \* the clients that were active beforehand

\* The handler makes no notifyListeners call.
Silent(l, beh) ==
    /\ beh = AllOk
    /\ last' = l
    /\ UNCHANGED <<listeners, stamps, nextStamp>>

\* The handler makes one call notifyListeners(event, data), data being of
\* class code; beh says how each callback behaves when invoked (Ok for
\* those the pass does not invoke: they are not asked).
Notify(l, event, code, beh) ==
    LET r == notifyListeners(Reg, event, beh)
    IN  /\ r.reg.nx <= MaxRegs + 1
        /\ \A c \in Callbacks \ Range(r.invoked) : beh[c] = Ok
        /\ listeners' = r.reg.ls
        /\ stamps' = r.reg.st
        /\ nextStamp' = r.reg.nx
        /\ last' = [l EXCEPT !.pass =
                       [ event |-> event, code |-> code, beh |-> beh,
                         before |-> listeners[event],
                         stampsBefore |-> stamps[event],
                         invoked |-> r.invoked,
                         after |-> r.reg.ls[event],
                         propagated |-> r.propagated ],
                     !.threw = IF r.propagated THEN "listener" ELSE l.threw]

----------------------------------------------------------------------------
(* The transport clients.  A Client object is                              *)
(*   st     : "CONNECTING" (socket being opened), "CONNECTED",             *)
(*            "BACKOFF" (socket closed, reconnect timer running),          *)
(*            "CLOSING" (deactivated, socket not closed yet), "INACTIVE"   *)
(*   active : activate() was called and deactivate() was not               *)
(*   subs   : the destinations it holds a subscription for                 *)
(*   owner  : history, the userId of the initialize call that created it   *)

QueueOf(u) == [kind |-> "queue", user |-> u]    \* /user/<u>/queue/messages
ErrorTopic == [kind |-> "errors", user |-> "-"] \* /user/queue/errors

Connected(c) == clients[c].st = "CONNECTED"     \* client.connected

ActiveClients == { c \in 1..Len(clients) : clients[c].active }

\* new Client({... reconnectDelay: 5000 ...}) followed by client.activate()
NewClient(u) ==
    [st |-> "CONNECTING", active |-> TRUE, subs |-> <<>>, owner |-> u]

\* client.deactivate(): no reconnect any more; a pending reconnect is
\* cancelled, an open socket is closed (its close is reported later).
Deactivated(cl) ==
    [cl EXCEPT !.active = FALSE,
               !.st = IF cl.st = "BACKOFF" THEN "INACTIVE" ELSE "CLOSING"]

\* initialize: `this.client && this.client.connected`
HasLiveClient == client # 0 /\ Connected(client)

\* mutant of the test in sendMessageWithPhotos: only the null test
NotConnectedNullOnly == client = 0

\* sendMessageWithPhotos: `!this.client || !this.client.connected`
NotConnected == client = 0 \/ ~Connected(client)

\* initialize(userId)
Initialize(u) ==
    /\ Len(clients) < MaxClients
    /\ userId' = u
    /\ clients' = Append(IF HasLiveClient
                         THEN [clients EXCEPT ![client] = Deactivated(@)]
                         ELSE clients,
                         NewClient(u))
    /\ client' = Len(clients) + 1
    /\ Silent(Quiet("initialize", 0), AllOk)
    /\ UNCHANGED sends
    /\ UNCHANGED adapters

\* disconnect()
Disconnect ==
    /\ IF client # 0
       THEN /\ clients' = [clients EXCEPT ![client] = Deactivated(@)]
            /\ client' = 0
       ELSE UNCHANGED <<clients, client>>
    /\ Silent(Quiet("disconnect", 0), AllOk)
    /\ UNCHANGED <<userId, sends>>
    /\ UNCHANGED adapters

\* client.onConnect of client c: the transport acknowledged the connection.
\* Both subscribe calls go to this.client, whichever client that is now:
\* `?.` skips them when it is null, and Client.subscribe raises when that
\* client has no connection, which ends the handler.
OnConnect(c) ==
    /\ clients[c].st = "CONNECTING"
    /\ clients[c].active
    /\ LET now == [clients EXCEPT ![c].st = "CONNECTED"]
       IN  IF client # 0 /\ now[client].st = "CONNECTED"
           THEN /\ Len(now[client].subs) + 2 <= MaxSubs
                /\ clients' = [now EXCEPT ![client].subs =
                                   @ \o <<QueueOf(userId), ErrorTopic>>]
                /\ Silent(Quiet("onConnect", c), AllOk)
           ELSE /\ clients' = now
                /\ Silent([Quiet("onConnect", c) EXCEPT !.threw =
                              IF client = 0 THEN "no" ELSE "TypeError"], AllOk)
    /\ UNCHANGED <<client, userId, sends>>
    /\ UNCHANGED adapters

\* `evt.code === 1000 && evt.reason?.includes('deleted')`
CloseCodes == {1000, 1006}
CloseReasons == {"undefined", "", "room deleted"}
\* mutant of IsDeletionClose: the reason alone decides
IsDeletionCloseAnyCode(code, reason) == reason = "room deleted"
\* `evt.code === 1000 && evt.reason?.includes('deleted')`
IsDeletionClose(code, reason) == code = 1000 /\ reason = "room deleted"

\* client.onWebSocketClose of client c: its socket closed.  The transport
\* drops the subscriptions and, when c is still active, schedules a reconnect.
OnWebSocketClose(c, code, reason, beh) ==
    /\ clients[c].st \in {"CONNECTING", "CONNECTED", "CLOSING"}
    /\ clients' = [clients EXCEPT ![c].subs = <<>>,
                                  ![c].st = IF clients[c].active
                                            THEN "BACKOFF" ELSE "INACTIVE"]
    /\ LET l == [Quiet("onWebSocketClose", c) EXCEPT
                     !.close = [code |-> code, reason |-> reason]]
       IN  IF IsDeletionClose(code, reason)
           THEN Notify(l, "error", "CHAT_ROOM_DELETED", beh)
           ELSE Silent(l, beh)
    /\ UNCHANGED <<client, userId, sends>>
    /\ UNCHANGED adapters

\* reconnectDelay elapsed: an active client opens a new socket
Reconnect(c) ==
    /\ clients[c].st = "BACKOFF"
    /\ clients[c].active
    /\ clients' = [clients EXCEPT ![c].st = "CONNECTING"]
    /\ Silent(Quiet("reconnect", c), AllOk)
    /\ UNCHANGED <<client, userId, sends>>
    /\ UNCHANGED adapters

\* client.onStompError of client c: the broker sent an ERROR frame
OnStompError(c, beh) ==
    /\ clients[c].st \in {"CONNECTING", "CONNECTED", "CLOSING"}
    /\ Notify(Quiet("onStompError", c), "error", "STOMP_ERROR", beh)
    /\ UNCHANGED <<client, userId, clients, sends>>
    /\ UNCHANGED adapters

----------------------------------------------------------------------------
(* Inbound frames *)

\* Frame bodies: not JSON; the JSON text null; an object whose error field
\* is a non-empty string; one whose error field is ""; one without the field.
Bodies == {"malformed", "null", "error", "emptyError", "plain"}

\* JSON.parse(body) raises on a malformed body
Parses(body) == body # "malformed"

\* `messageData.error`: reading a field of null raises; "" and undefined are falsy
FieldRaises(body) == body = "null"
ErrorIsTruthy(body) == body = "error"

\* mutant of Route: the private queue handler without its `if (messageData.error)`
RouteNoErrorTest(kind, body) ==
    IF kind = "queue"
    THEN IF Parses(body) /\ ~FieldRaises(body)
         THEN [event |-> "message", code |-> "PAYLOAD"]
         ELSE [event |-> "error", code |-> "PROCESSING_FAILED"]
    ELSE IF Parses(body)
         THEN [event |-> "error", code |-> "PAYLOAD"]
         ELSE [event |-> "error", code |-> "UNKNOWN_FAILED"]

\* mutant of Route: the catch blocks notify nobody
RouteDropsMalformed(kind, body) ==
    IF kind = "queue"
    THEN IF Parses(body) /\ ~FieldRaises(body)
         THEN IF ErrorIsTruthy(body)
              THEN [event |-> "error", code |-> "PAYLOAD"]
              ELSE [event |-> "message", code |-> "PAYLOAD"]
         ELSE [event |-> "none", code |-> "-"]
    ELSE IF Parses(body)
         THEN [event |-> "error", code |-> "PAYLOAD"]
         ELSE [event |-> "none", code |-> "-"]

\* The two subscription callbacks: the event class the frame is notified as
\* and the class of the data, PAYLOAD being the parsed body itself and the
\* two *_FAILED being the objects {message, originalError} the catch blocks build.
Route(kind, body) ==
    IF kind = "queue"
    THEN IF Parses(body) /\ ~FieldRaises(body)
         THEN IF ErrorIsTruthy(body)
              THEN [event |-> "error", code |-> "PAYLOAD"]
              ELSE [event |-> "message", code |-> "PAYLOAD"]
         ELSE [event |-> "error", code |-> "PROCESSING_FAILED"]
    ELSE IF Parses(body)
         THEN [event |-> "error", code |-> "PAYLOAD"]
         ELSE [event |-> "error", code |-> "UNKNOWN_FAILED"]

\* A frame arrives for subscription i of client c and its callback runs.
\* Frames still arrive while a deactivated client waits for its socket to close.
OnFrame(c, i, body, beh) ==
    /\ clients[c].st \in {"CONNECTED", "CLOSING"}
    /\ i \in 1..Len(clients[c].subs)
    /\ LET kind == clients[c].subs[i].kind
           l == [Quiet("onFrame", c) EXCEPT !.dest = kind, !.sub = i, !.body = body]
           to == Route(kind, body)
       IN  IF to.event = "none" THEN Silent(l, beh) ELSE Notify(l, to.event, to.code, beh)
    /\ UNCHANGED <<client, userId, clients, sends>>
    /\ UNCHANGED adapters

----------------------------------------------------------------------------
(* The send pipeline *)

ChatRoomIds == {42}
Contents == {"", "hi"}
SenderTypes == {"CUSTOMER"}
PhotoLists == {<<>>, <<"photo">>}
PhotoPlaceholder == "PHOTO_PLACEHOLDER"     \* the fixed text of line 163
SendDestination == "/app/chat.sendMessage"

\* the answers of axios.get(`/api/chat/room/${chatRoomId}`): 200 resolves,
\* the others reject: with response.status 404 or 500, or without a response
CheckAnswers == {"200", "404", "500", "no response"}

\* mutant of IsRoomDeleted: the status compared with its text, never equal
IsRoomDeletedByText(answer) == answer = "Not Found"

\* `error.response && error.response.status === 404`
IsRoomDeleted(answer) == answer = "404"

\* mutant of MessageText: the content as it is
MessageTextContentOnly(content, photos) == content
\* `content || (photos.length > 0 ? <placeholder> : '')`
MessageText(content, photos) ==
    IF content # "" THEN content
    ELSE IF Len(photos) > 0 THEN PhotoPlaceholder ELSE ""

\* JSON.stringify(messagePayload): the text of the object, its fields in the
\* order of the literal; JSON.parse reads such a text back
JSONStringify(payload) ==
    << "{", payload.chatRoomId, payload.message, payload.senderType,
       payload.senderId, payload.photos, "}" >>
JSONParse(text) ==
    [ chatRoomId |-> text[2], message |-> text[3], senderType |-> text[4],
      senderId |-> text[5], photos |-> text[6] ]

\* sendMessageWithPhotos up to its await: the connection test, then the
\* existence check is issued
SendMessageWithPhotos(room, content, senderType, photos, beh) ==
    /\ IF NotConnected
       THEN /\ Notify([Quiet("send", client) EXCEPT !.threw = "NotConnected"],
                      "error", "CONNECTION_ERROR", beh)
            /\ UNCHANGED sends
       ELSE /\ Len(sends) < MaxPending
            /\ sends' = Append(sends,
                   [ chatRoomId |-> room, content |-> content,
                     senderType |-> senderType, photos |-> photos,
                     user |-> userId, cl |-> client ])
            /\ Silent(Quiet("send", client), beh)
    /\ UNCHANGED <<client, userId, clients>>
    /\ UNCHANGED adapters

\* sendMessage(chatRoomId, content, senderType)
SendMessage(room, content, senderType, beh) ==
    SendMessageWithPhotos(room, content, senderType, <<>>, beh)

\* sendMessageWithPhotos from its await on: the check of pending send i is
\* answered.  this.client and this.userId are read now, not at the call.
SendResume(i, answer, beh) ==
    /\ i \in 1..Len(sends)
    /\ sends' = RemoveAt(sends, i)
    /\ LET s == sends[i]
           l == [Quiet("sendResume", client) EXCEPT !.check = answer, !.call = s]
           messagePayload ==
               [ chatRoomId |-> s.chatRoomId,
                 message |-> MessageText(s.content, s.photos),
                 senderType |-> s.senderType,
                 senderId |-> userId,
                 photos |-> s.photos ]
       IN  IF answer # "200" /\ IsRoomDeleted(answer)
           THEN Notify([l EXCEPT !.threw = "axios 404"],
                       "error", "CHAT_ROOM_DELETED", beh)
           ELSE IF client = 0 \/ ~Connected(client)
                THEN Silent([l EXCEPT !.threw = "TypeError"], beh)
                ELSE Silent([l EXCEPT
                        !.pub = [ destination |-> SendDestination,
                                  body |-> JSONStringify(messagePayload),
                                  cl |-> client ],
                        !.ret = messagePayload], beh)
    /\ UNCHANGED <<client, userId, clients>>
    /\ UNCHANGED adapters

----------------------------------------------------------------------------
(* AdminFileUploadService *)

MaxFiles == 2       \* files handed to one uploadMultipleImages call

MAX_FILE_SIZE == 10 * 1024 * 1024

\* the File objects a caller hands over: name and size
FileNames == {"a.png", "b.png"}
FileSizes == {0, MAX_FILE_SIZE - 1, MAX_FILE_SIZE, MAX_FILE_SIZE + 1}
Files == [name : FileNames, size : FileSizes]
\* the answers of axios.post(`${baseUrl}/upload`): a response whose data
\* holds the backend's fileUrl and its own count of the bytes, or a rejection
FileUrls == {"/files/1", "/files/2"}
UploadAnswers ==
    { [ok |-> TRUE, fileUrl |-> "/files/1", fileSize |-> 7],
      [ok |-> TRUE, fileUrl |-> "/files/2", fileSize |-> 0],
      [ok |-> FALSE, fileUrl |-> "-", fileSize |-> 0] }
\* the arrays of at most n elements of S
SeqsUpTo(S, n) == UNION { [1..k -> S] : k \in 0..n }
NoAnswer == [ok |-> FALSE, fileUrl |-> "none", fileSize |-> 0]
NoRef == [fileUrl |-> "none"]

\* mutant of TooLarge: a file of exactly the ceiling is refused as well
TooLargeInclusive(size) == size >= MAX_FILE_SIZE
\* `file.size > this.MAX_FILE_SIZE`
TooLarge(size) == size > MAX_FILE_SIZE

\* the object uploadImage returns
UploadResult(file, response) ==
    [ fileUrl |-> response.fileUrl,
      fileName |-> file.name,
      fileSize |-> file.size ]

\* mutant of Started: uploadImage without its size test
StartedUnchecked(files) == [i \in 1..Len(files) |-> "posting"]
\* uploadImage up to its await, for each file of a call: the size test
\* raises inside the async function, else axios.post is issued
Started(files) ==
    [i \in 1..Len(files) |->
        IF TooLarge(files[i].size) THEN "tooLarge" ELSE "posting"]

\* mutant of PromiseAll: the values in the order the promises resolved
PromiseAllByCompletion(values, order) == [k \in 1..Len(order) |-> values[order[k]]]
\* Promise.all resolves with the values at their promises' indexes
PromiseAll(values, order) == values

\* no upload call made yet
NoUpload ==
    [ kind |-> "none", files |-> <<>>, st |-> <<>>, answers |-> <<>>,
      refs |-> <<>>, order |-> <<>>, outcome |-> "none", error |-> "-",
      result |-> <<>> ]

\* the call begins: every file passes through uploadImage's first part
Begin(kind, files) ==
    LET st == Started(files)
        refused == \E i \in 1..Len(files) : st[i] = "tooLarge"
    IN  [ kind |-> kind,
          files |-> files,
          st |-> st,                 \* each upload's progress
          answers |-> [i \in 1..Len(files) |-> NoAnswer],
          refs |-> [i \in 1..Len(files) |-> NoRef],
          order |-> <<>>,            \* history: uploads in order of completion
          outcome |-> IF refused THEN "rejected"
                      ELSE IF files = <<>> THEN "resolved" ELSE "pending",
          error |-> IF refused THEN "FileTooLarge" ELSE "-",
          result |-> <<>> ]

\* uploadImage(file, chatRoomId) up to its await.  The service holds no
\* listener registry: the refusal is logged and thrown, nothing is notified.
UploadImage(file) ==
    /\ up.outcome # "pending"
    /\ LET b == Begin("uploadImage", <<file>>)
       IN  /\ up' = b
           /\ Silent([Quiet("uploadImage", 0) EXCEPT !.threw =
                         IF b.outcome = "rejected" THEN b.error ELSE "no"], AllOk)
    /\ UNCHANGED <<client, userId, clients, sends, bucket, store>>

\* uploadMultipleImages(files, chatRoomId) up to its await: files.map runs
\* uploadImage on every file, then Promise.all awaits the promises
UploadMultipleImages(files) ==
    /\ up.outcome # "pending"
    /\ LET b == Begin("uploadMultipleImages", files)
       IN  /\ up' = b
           /\ Silent([Quiet("uploadMultipleImages", 0) EXCEPT !.threw =
                         IF b.outcome = "rejected" THEN b.error ELSE "no"], AllOk)
    /\ UNCHANGED <<client, userId, clients, sends, bucket, store>>

\* axios.post of upload i is answered: uploadImage resumes, returns its
\* UploadResult or rethrows; the call settles when its promise does, and a
\* promise that has settled stays as it is
UploadAnswer(i, answer) ==
    /\ i \in 1..Len(up.files)
    /\ up.st[i] = "posting"
    /\ LET st == [up.st EXCEPT ![i] = IF answer.ok THEN "done" ELSE "failed"]
           refs == [up.refs EXCEPT ![i] =
                       IF answer.ok THEN UploadResult(up.files[i], answer) ELSE NoRef]
           order == Append(up.order, i)
           settles == up.outcome = "pending"
           alldone == \A k \in 1..Len(st) : st[k] = "done"
       IN  /\ up' = [up EXCEPT
                 !.st = st, !.refs = refs, !.order = order,
                 !.answers = [up.answers EXCEPT ![i] = answer],
                 !.outcome = IF ~settles THEN @
                             ELSE IF ~answer.ok THEN "rejected"
                             ELSE IF alldone THEN "resolved" ELSE "pending",
                 !.error = IF settles /\ ~answer.ok THEN "UploadFailed" ELSE @,
                 !.result = IF settles /\ answer.ok /\ alldone
                            THEN IF up.kind = "uploadImage" THEN <<refs[1]>>
                                 ELSE PromiseAll(refs, order)
                            ELSE @ ]
           /\ Silent([Quiet("uploadAnswer", 0) EXCEPT !.threw =
                         IF settles /\ ~answer.ok THEN "UploadFailed" ELSE "no"],
                     AllOk)
    /\ UNCHANGED <<client, userId, clients, sends, bucket, store>>

----------------------------------------------------------------------------
(* NCPObjectStorageService *)

MaxStorageOps == 3      \* storage operations in one behaviour

\* One listObjects call answers with one page: at most this many keys, the
\* first ones in key order.
ListPageSize == 1000

\* Keys are character sequences.  Two folders, "c1" and "c10": the objects
\* of a folder have the keys <folder>/<name>.
F1 == <<"c", "1">>
F10 == <<"c", "1", "0">>
Folders == {F1, F10}
\* in key order "c1/..." comes before "c10/...": '/' sorts before '0'
FolderOrder == <<F1, F10>>
Slash == <<"/">>
Prefixes == {F1, F1 \o Slash, F10 \o Slash, <<"x">>}

StartsWith(key, prefix) ==
    /\ Len(prefix) <= Len(key)
    /\ SubSeq(key, 1, Len(prefix)) = prefix
\* every key of folder d starts with prefix
Matches(d, prefix) == StartsWith(d \o Slash, prefix)

Min(a, b) == IF a < b THEN a ELSE b
EmptyBucket == [d \in Folders |-> 0]
Matching(b, prefix) == [d \in Folders |-> IF Matches(d, prefix) THEN b[d] ELSE 0]
Total(n) == n[F1] + n[F10]

\* `s3.listObjects(bucketName, prefix).getObjectSummaries()`: how many keys
\* of each folder the page holds
ListObjects(b, prefix) ==
    LET m == Matching(b, prefix)
        first == Min(m[FolderOrder[1]], ListPageSize)
    IN  [d \in Folders |->
            IF d = FolderOrder[1] THEN first
            ELSE Min(m[d], ListPageSize - first)]

\* mutant of IssuesBatch: the request is sent whatever the listing holds
IssuesBatchAlways(keys) == TRUE
\* `!keys.isEmpty()`
IssuesBatch(keys) == Total(keys) > 0

NoStore == [op |-> "none", ops |-> 0]
Stored(op, prefix, reach, listed, batches, fault) ==
    [ op |-> op,                \* the operation
      reach |-> reach,          \* whether the backend answered
      prefix |-> prefix,        \* deleteFolder: its argument
      before |-> bucket,        \* the bucket beforehand
      listed |-> listed,        \* deleteFolder: the keys of the listing
      batches |-> batches,      \* the deleteObjects requests sent
      fault |-> fault,          \* the exception that left the operation
      ops |-> store.ops + 1 ]

\* deleteFolder(prefix); reach says whether the backend answers
DeleteFolder(prefix, reach) ==
    /\ store.ops < MaxStorageOps
    /\ LET keys == ListObjects(bucket, prefix)
       IN  IF ~reach
           THEN /\ bucket' = bucket
                /\ store' = Stored("deleteFolder", prefix, FALSE, EmptyBucket, 0,
                                   "SdkClientException")
           ELSE IF IssuesBatch(keys)
                THEN /\ bucket' = [d \in Folders |-> bucket[d] - keys[d]]
                     /\ store' = Stored("deleteFolder", prefix, TRUE, keys, 1, "no")
                ELSE /\ bucket' = bucket
                     /\ store' = Stored("deleteFolder", prefix, TRUE, keys, 0, "no")
    /\ UNCHANGED <<service, last, up>>

\* delete(filePath) of an object of folder d, or of a key that is absent
Delete(d, present) ==
    /\ store.ops < MaxStorageOps
    /\ present => bucket[d] > 0
    /\ bucket' = [bucket EXCEPT ![d] = IF present THEN @ - 1 ELSE @]
    /\ store' = Stored("delete", d, TRUE, EmptyBucket, 0, "no")
    /\ UNCHANGED <<service, last, up>>

\* upload(filePath, fileIn) of a new object of folder d
Upload(d) ==
    /\ store.ops < MaxStorageOps
    /\ bucket' = [bucket EXCEPT ![d] = @ + 1]
    /\ store' = Stored("upload", d, TRUE, EmptyBucket, 0, "no")
    /\ UNCHANGED <<service, last, up>>

----------------------------------------------------------------------------
(* The registry operations as the application calls them *)

AddListener(event, cb) ==
    /\ nextStamp <= MaxRegs
    /\ LET r == addListener(Reg, event, cb)
       IN  /\ listeners' = r.ls
           /\ stamps' = r.st
           /\ nextStamp' = r.nx
    /\ last' = Quiet("addListener", 0)
    /\ UNCHANGED <<client, userId, clients, sends>>
    /\ UNCHANGED adapters

RemoveListener(event, cb) ==
    /\ LET r == removeListener(Reg, event, cb)
       IN  /\ listeners' = r.ls
           /\ stamps' = r.st
           /\ nextStamp' = r.nx
    /\ last' = Quiet("removeListener", 0)
    /\ UNCHANGED <<client, userId, clients, sends>>
    /\ UNCHANGED adapters

----------------------------------------------------------------------------

\* the chat service after construction
InitService ==
    /\ client = 0
    /\ userId = NoUser
    /\ listeners = [e \in EventNames |-> <<>>]
    /\ clients = <<>>
    /\ sends = <<>>
    /\ stamps = [e \in EventNames |-> <<>>]
    /\ nextStamp = 1
    /\ last = Quiet("new", 0)

Init ==
    /\ InitService
    /\ up = NoUpload
    /\ bucket = EmptyBucket
    /\ store = NoStore

Next ==
    \/ \E u \in UserIds : Initialize(u)
    \/ Disconnect
    \/ \E c \in 1..Len(clients) : OnConnect(c)
    \/ \E c \in 1..Len(clients), code \in CloseCodes, reason \in CloseReasons,
          beh \in AnyBehaviour : OnWebSocketClose(c, code, reason, beh)
    \/ \E c \in 1..Len(clients) : Reconnect(c)
    \/ \E c \in 1..Len(clients), beh \in AnyBehaviour : OnStompError(c, beh)
    \/ \E c \in 1..Len(clients), i \in 1..MaxSubs, body \in Bodies,
          beh \in AnyBehaviour : OnFrame(c, i, body, beh)
    \/ \E room \in ChatRoomIds, content \in Contents, st \in SenderTypes,
          photos \in PhotoLists, beh \in AnyBehaviour :
           SendMessageWithPhotos(room, content, st, photos, beh)
    \/ \E room \in ChatRoomIds, content \in Contents, st \in SenderTypes,
          beh \in AnyBehaviour : SendMessage(room, content, st, beh)
    \/ \E i \in 1..MaxPending, answer \in CheckAnswers, beh \in AnyBehaviour :
           SendResume(i, answer, beh)
    \/ \E e \in EventNames, cb \in Callbacks : AddListener(e, cb)
    \/ \E e \in EventNames, cb \in Callbacks : RemoveListener(e, cb)
    \/ \E file \in Files : UploadImage(file)
    \/ \E files \in SeqsUpTo(Files, MaxFiles) : UploadMultipleImages(files)
    \/ \E i \in 1..MaxFiles, answer \in UploadAnswers : UploadAnswer(i, answer)
    \/ \E prefix \in Prefixes, reach \in BOOLEAN : DeleteFolder(prefix, reach)
    \/ \E d \in Folders, present \in BOOLEAN : Delete(d, present)
    \/ \E d \in Folders : Upload(d)

Spec == Init /\ [][Next]_vars

\* The specifications below take part of Next, some of its inputs narrowed:
\* every behaviour of each is a behaviour of Spec.

\* The listener registry with callbacks of every behaviour, notified by the
\* frames of one session
NextRegistry ==
    \/ \E e \in EventNames, cb \in Callbacks : AddListener(e, cb)
    \/ \E e \in EventNames, cb \in Callbacks : RemoveListener(e, cb)
    \/ client = 0 /\ Initialize("u1")
    \/ \E c \in 1..Len(clients) : OnConnect(c)
    \/ \E c \in 1..Len(clients), i \in 1..MaxSubs, body \in {"plain", "error"},
          beh \in AnyBehaviour : OnFrame(c, i, body, beh)

SpecRegistry == Init /\ [][NextRegistry]_vars

\* The send pipeline over sessions that open, close, reconnect and are replaced
NextSend ==
    \/ Disconnect
    \/ Initialize("u1")
    \/ \E c \in 1..Len(clients) : OnConnect(c)
    \/ \E c \in 1..Len(clients) : OnWebSocketClose(c, 1006, "undefined", AllOk)
    \/ \E c \in 1..Len(clients) : Reconnect(c)
    \/ SendMessageWithPhotos(42, "", "CUSTOMER", <<"photo">>, AllOk)
    \/ SendMessage(42, "hi", "CUSTOMER", AllOk)
    \/ \E i \in 1..MaxPending, answer \in CheckAnswers : SendResume(i, answer, AllOk)
    \/ AddListener("error", "f")

SpecSend == Init /\ [][NextSend]_vars

\* Frame dispatch over sessions that open, close and reconnect
NextFrames ==
    \/ Initialize("u1")
    \/ \E c \in 1..Len(clients) : OnConnect(c)
    \/ \E c \in 1..Len(clients) : OnWebSocketClose(c, 1006, "undefined", AllOk)
    \/ \E c \in 1..Len(clients) : Reconnect(c)
    \/ \E c \in 1..Len(clients), i \in 1..MaxSubs, body \in Bodies :
           OnFrame(c, i, body, AllOk)
    \/ \E e \in EventNames : AddListener(e, "f")

SpecFrames == Init /\ [][NextFrames]_vars

\* Sessions, frames and sends with well-behaved callbacks
NextSession ==
    \/ \E u \in UserIds : Initialize(u)
    \/ Disconnect
    \/ \E c \in 1..Len(clients) : OnConnect(c)
    \/ \E c \in 1..Len(clients), code \in CloseCodes, reason \in CloseReasons :
           OnWebSocketClose(c, code, reason, AllOk)
    \/ \E c \in 1..Len(clients) : Reconnect(c)
    \/ \E c \in 1..Len(clients) : OnStompError(c, AllOk)
    \/ \E c \in 1..Len(clients), i \in 1..MaxSubs, body \in Bodies :
           OnFrame(c, i, body, AllOk)
    \/ \E room \in ChatRoomIds, content \in Contents, st \in SenderTypes,
          photos \in PhotoLists :
           SendMessageWithPhotos(room, content, st, photos, AllOk)
    \/ \E room \in ChatRoomIds, content \in Contents, st \in SenderTypes :
           SendMessage(room, content, st, AllOk)
    \/ \E i \in 1..MaxPending, answer \in CheckAnswers : SendResume(i, answer, AllOk)
    \/ \E e \in EventNames : AddListener(e, "f")

SpecSession == Init /\ [][NextSession]_vars

\* One user's session under every kind of socket close
NextClose ==
    \/ Initialize("u1")
    \/ Disconnect
    \/ \E c \in 1..Len(clients) : OnConnect(c)
    \/ \E c \in 1..Len(clients), code \in CloseCodes, reason \in CloseReasons :
           OnWebSocketClose(c, code, reason, AllOk)
    \/ \E c \in 1..Len(clients) : Reconnect(c)
    \/ \E c \in 1..Len(clients) : OnStompError(c, AllOk)
    \/ AddListener("error", "f")

SpecClose == Init /\ [][NextClose]_vars

\* Sends of every content, with and without photos, on one user's session
NextEnvelope ==
    \/ Initialize("u1")
    \/ \E c \in 1..Len(clients) : OnConnect(c)
    \/ \E c \in 1..Len(clients) : OnWebSocketClose(c, 1006, "undefined", AllOk)
    \/ \E content \in Contents, photos \in PhotoLists :
           SendMessageWithPhotos(42, content, "CUSTOMER", photos, AllOk)
    \/ \E content \in Contents : SendMessage(42, content, "CUSTOMER", AllOk)
    \/ \E i \in 1..MaxPending, answer \in CheckAnswers : SendResume(i, answer, AllOk)

SpecEnvelope == Init /\ [][NextEnvelope]_vars

\* The calls that validate their input: sends and single uploads
NextValidation ==
    \/ Initialize("u1")
    \/ \E c \in 1..Len(clients) : OnConnect(c)
    \/ SendMessage(42, "hi", "CUSTOMER", AllOk)
    \/ \E answer \in {"200", "404"} : SendResume(1, answer, AllOk)
    \/ AddListener("error", "f")
    \/ \E file \in Files : UploadImage(file)
    \/ \E answer \in UploadAnswers : UploadAnswer(1, answer)

SpecValidation == Init /\ [][NextValidation]_vars

\* The upload adapter alone; the files of a batch are "a.png" and "b.png" at
\* the ceiling or one byte above it
BatchFiles == [name : FileNames, size : {MAX_FILE_SIZE, MAX_FILE_SIZE + 1}]
NextUpload ==
    \/ \E file \in Files : UploadImage(file)
    \/ \E files \in SeqsUpTo(BatchFiles, MaxFiles) : UploadMultipleImages(files)
    \/ \E i \in 1..MaxFiles, answer \in UploadAnswers : UploadAnswer(i, answer)

SpecUpload == Init /\ [][NextUpload]_vars

\* The storage adapter alone, over buckets that hold none, one, a full page
\* or a page and one more of the objects of each folder
Buckets == [Folders -> {0, 1, ListPageSize, ListPageSize + 1}]
InitStorage ==
    /\ InitService
    /\ up = NoUpload
    /\ bucket \in Buckets
    /\ store = NoStore
NextStorage ==
    \/ \E prefix \in Prefixes, reach \in BOOLEAN : DeleteFolder(prefix, reach)
    \/ \E d \in Folders, present \in BOOLEAN : Delete(d, present)
    \/ \E d \in Folders : Upload(d)

SpecStorage == InitStorage /\ [][NextStorage]_vars

----------------------------------------------------------------------------
(* Properties *)

Notified == last.pass.event # "none"
\* the last handler's event reached a registered listener
Delivered == Notified /\ last.pass.invoked # <<>>
Mutating(b) == b.kind \in {"remove", "add"}

\* C1: at most one transport client created by the service is active
\* (activated and not deactivated) at any instant.
C1_AtMostOneActiveClient == Cardinality(ActiveClients) <= 1

\* C2: a send called while there is no client, or the client is not
\* connected, fails, notifies one 'error' event of code CONNECTION_ERROR and
\* runs neither the existence check nor the publish step.
C2_SendWithoutSessionFails ==
    (last.op = "send" /\ ~last.conn) =>
        /\ last.threw = "NotConnected"
        /\ last.pass.event = "error"
        /\ last.pass.code = "CONNECTION_ERROR"
        /\ Len(sends) = last.pending
        /\ last.pub = NoPub
        /\ last.ret = NoSend

\* a send on a client that exists and is not connected, with a listener told
C2_Witness ==
    /\ last.op = "send"
    /\ ~last.conn
    /\ last.cl # 0
    /\ Notified
    /\ last.pass.invoked # <<>>

\* C3: when the existence check of a send answers 404 the call fails, an
\* 'error' event of code CHAT_ROOM_DELETED is notified and nothing is published.
C3_DeletedRoomBlocksSend ==
    (last.op = "sendResume" /\ last.check = "404") =>
        /\ last.threw = "axios 404"
        /\ last.pass.event = "error"
        /\ last.pass.code = "CHAT_ROOM_DELETED"
        /\ last.pub = NoPub
        /\ last.ret = NoSend

\* a check answered 404 on a session still connected, with a listener told
C3_Witness ==
    /\ last.op = "sendResume"
    /\ last.check = "404"
    /\ last.conn
    /\ Notified
    /\ last.pass.invoked # <<>>

\* C4: when the existence check of a send fails with anything but a 404 the
\* call still publishes the envelope and returns it, and notifies no event.
C4_OtherCheckFailureStillPublishes ==
    (last.op = "sendResume" /\ last.check \in {"500", "no response"}) =>
        /\ last.pub # NoPub
        /\ last.ret # NoSend
        /\ last.threw = "no"
        /\ ~Notified

\* C5: in a pass whose callbacks do nothing to the registry but remove
\* themselves, a callback that removed itself is not invoked again and
\* every callback still registered after the pass was invoked.
C5_SelfRemovalSkipsNobody ==
    (/\ Notified
     /\ \A cb \in Range(last.pass.invoked) :
            Mutating(last.pass.beh[cb]) =>
                last.pass.beh[cb] = [kind |-> "remove", target |-> cb]) =>
        /\ \A cb \in Range(last.pass.invoked) :
               (Mutating(last.pass.beh[cb]) /\ cb \notin Range(last.pass.after)) =>
                   Cardinality({ k \in 1..Len(last.pass.invoked) :
                                     last.pass.invoked[k] = cb }) = 1
        /\ \A cb \in Range(last.pass.after) : cb \in Range(last.pass.invoked)

\* C6: in a pass during which no callback adds or removes a listener, the
\* callbacks are invoked in the order in which addListener registered them.
C6_OrderIsRegistrationOrder ==
    (/\ Notified
     /\ \A cb \in Range(last.pass.invoked) : ~Mutating(last.pass.beh[cb])) =>
        /\ Len(last.pass.invoked) = Len(last.pass.before)
        /\ \A i \in 1..Len(last.pass.invoked) :
               /\ last.pass.invoked[i] = last.pass.before[i]
               /\ \A j \in 1..(i - 1) :
                      last.pass.stampsBefore[j] < last.pass.stampsBefore[i]

\* a pass over two different callbacks, the older registrations removed before
C6_Witness ==
    /\ Notified
    /\ \A cb \in Range(last.pass.invoked) : ~Mutating(last.pass.beh[cb])
    /\ Len(last.pass.invoked) = 2
    /\ last.pass.invoked[1] # last.pass.invoked[2]
    /\ last.pass.stampsBefore[1] > 1

\* what the pass invokes when the callbacks that raise return instead
Calm(beh) == [c \in Callbacks |-> IF beh[c] = Raise THEN Ok ELSE beh[c]]
CalmPass(pass) ==
    notifyListeners([ ls |-> [e \in EventNames |-> pass.before],
                      st |-> [e \in EventNames |-> pass.stampsBefore],
                      nx |-> nextStamp ],
                    pass.event, Calm(pass.beh))

\* C7: a callback that raises is caught inside the pass: nothing escapes
\* notifyListeners, and the pass invokes the callbacks it would invoke if none
\* raised (all those registered, when no callback touches the registry).
C7_RaiseIsContained ==
    Notified =>
        /\ ~last.pass.propagated
        /\ last.threw # "listener"
        /\ last.pass.invoked = CalmPass(last.pass).invoked
        /\ (\A cb \in Range(last.pass.invoked) : ~Mutating(last.pass.beh[cb]))
               => last.pass.invoked = last.pass.before

\* the first of two callbacks raises and the second is invoked
C7_Witness ==
    /\ Notified
    /\ Len(last.pass.invoked) = 2
    /\ last.pass.invoked[1] # last.pass.invoked[2]
    /\ last.pass.beh[last.pass.invoked[1]] = Raise

\* C8 as stated: a frame parsed to an object goes to the 'error' listeners
\* exactly when its payload has a non-empty error field, else to the
\* 'message' listeners, whatever its destination.
C8_RoutingByErrorFieldAlone ==
    (last.op = "onFrame" /\ Parses(last.body) /\ last.body # "null") =>
        /\ last.pass.event \in {"error", "message"}
        /\ last.pass.event = "error" <=> last.body = "error"

\* C8 amended: on the per-user queue a parsed frame goes to the 'error'
\* listeners exactly when its error field is truthy or its payload is null
\* (then as the synthesized processing-failed event), else to the 'message'
\* listeners; on the error topic every parsed frame goes to the 'error'
\* listeners; a frame is notified as one event class.
C8_RoutingByDestination ==
    (last.op = "onFrame" /\ Parses(last.body)) =>
        /\ last.pass.event \in {"error", "message"}
        /\ last.dest = "errors" =>
               last.pass.event = "error" /\ last.pass.code = "PAYLOAD"
        /\ last.dest = "queue" =>
               /\ last.pass.event = "error" <=> last.body \in {"error", "null"}
               /\ last.pass.code = "PROCESSING_FAILED" <=> last.body = "null"

\* a frame with an error field on the per-user queue reached an 'error' listener
C8_Witness ==
    /\ last.op = "onFrame"
    /\ last.dest = "queue"
    /\ last.body = "error"
    /\ last.pass.event = "error"
    /\ last.pass.invoked # <<>>

\* C9: a frame that cannot be parsed raises nothing out of its handler, is
\* notified as one synthesized 'error' event and no 'message' event, and
\* leaves its subscription in place for the frames that follow.
C9_MalformedFrameDegrades ==
    (last.op = "onFrame" /\ ~Parses(last.body)) =>
        /\ last.threw = "no"
        /\ last.pass.event = "error"
        /\ last.pass.code =
               IF last.dest = "queue" THEN "PROCESSING_FAILED" ELSE "UNKNOWN_FAILED"
        /\ clients[last.cl].st \in {"CONNECTED", "CLOSING"}
        /\ last.sub \in 1..Len(clients[last.cl].subs)
        /\ clients[last.cl].subs[last.sub].kind = last.dest

\* a malformed frame on the error topic reached an 'error' listener
C9_Witness ==
    /\ last.op = "onFrame"
    /\ last.body = "malformed"
    /\ last.dest = "errors"
    /\ Notified
    /\ last.pass.invoked # <<>>

\* C10: from an explicit disconnect() to the next initialize (this.client is
\* null and a client was created before) no handler notifies an event to a
\* listener.
C10_NoEventAfterDisconnect ==
    (client = 0 /\ clients # <<>> /\ last.op # "disconnect") => ~Delivered

\* C11: from disconnect() to the next initialize (this.client is null and a
\* client was created before) no client created earlier opens a socket
\* again or enters Connected.
C11_NoReconnectAfterDisconnect ==
    (client = 0 /\ clients # <<>>) => last.op \notin {"reconnect", "onConnect"}

\* C12: when the socket of a client that was not deactivated closes with
\* code 1000 and a reason holding 'deleted', the handler notifies an 'error'
\* event of code CHAT_ROOM_DELETED (whatever reconnect follows is announced);
\* on every other close it notifies nothing and leaves the client waiting
\* for the transport's reconnect timer.  A client becomes connected only by
\* the transport's own connect, from a socket the transport opened.
C12_CloseStep ==
    \A c \in 1..Len(clients) :
        (clients[c].st # "CONNECTED" /\ clients'[c].st = "CONNECTED") =>
            /\ clients[c].st = "CONNECTING"
            /\ last'.op = "onConnect"
            /\ last'.cl = c
ValidationFailed ==
    \/ last.op = "send" /\ ~last.conn
    \/ last.op = "sendResume" /\ last.check = "404"
    \/ last.op = "uploadImage" /\ up.files[1].size > 10 * 1024 * 1024
C13_ValidationFailuresNotify ==
    ValidationFailed => (last.threw # "no" /\ last.pass.event = "error")

\* C13, amended: the two validation failures of the send pipeline fail the
\* call and notify an 'error' event of their class; the upload of a file above
\* the ceiling fails the call and notifies no event.
C13_OnlySendFailuresNotify ==
    /\ (last.op = "send" /\ ~last.conn) =>
           /\ last.threw = "NotConnected"
           /\ last.pass.event = "error" /\ last.pass.code = "CONNECTION_ERROR"
    /\ (last.op = "sendResume" /\ last.check = "404") =>
           /\ last.threw = "axios 404"
           /\ last.pass.event = "error" /\ last.pass.code = "CHAT_ROOM_DELETED"
    /\ (last.op = "uploadImage" /\ up.files[1].size > 10 * 1024 * 1024) =>
           /\ last.threw = "FileTooLarge"
           /\ up.outcome = "rejected"
           /\ ~Notified
C13_Witness ==
    /\ last.op = "uploadImage"
    /\ up.files[1].size > 10 * 1024 * 1024
    /\ listeners["error"] # <<>>

\* C14: uploadImage refuses a file, without issuing the upload request,
\* exactly when its size is above 10 * 1024 * 1024; a file of that size or
\* less is posted, and when the backend answers, the returned reference
\* holds the backend's fileUrl, the file's own name and the file's own size.
Reference(i) ==
    [ fileUrl |-> up.answers[i].fileUrl,
      fileName |-> up.files[i].name,
      fileSize |-> up.files[i].size ]
C14_CeilingIsExclusive ==
    /\ \A i \in 1..Len(up.files) :
        /\ up.st[i] = "tooLarge" <=> up.files[i].size > 10 * 1024 * 1024
        /\ up.st[i] = "tooLarge" => up.answers[i] = NoAnswer
        /\ up.st[i] = "done" => up.refs[i] = Reference(i)
    /\ up.kind = "uploadImage" =>
        /\ up.st[1] = "tooLarge" =>
               up.outcome = "rejected" /\ up.error = "FileTooLarge"
        /\ up.st[1] = "posting" => up.outcome = "pending"
        /\ up.st[1] = "done" =>
               up.outcome = "resolved" /\ up.result = <<Reference(1)>>
C14_Witness ==
    /\ up.kind = "uploadImage"
    /\ up.files[1].size = 10 * 1024 * 1024
    /\ up.outcome = "resolved"
    /\ up.answers[1].fileSize # up.files[1].size

\* C15: uploadMultipleImages fails, returning no sequence, as soon as one of
\* its uploads has failed, whatever the order of the answers; when all have
\* succeeded it returns one reference per file, in the order of the files.
C15_AllOrNothing ==
    up.kind = "uploadMultipleImages" =>
        /\ (\E i \in 1..Len(up.files) : up.st[i] \in {"failed", "tooLarge"}) =>
               up.outcome = "rejected" /\ up.result = <<>>
        /\ (\A i \in 1..Len(up.files) : up.st[i] = "done") =>
               /\ up.outcome = "resolved"
               /\ Len(up.result) = Len(up.files)
               /\ \A i \in 1..Len(up.files) : up.result[i] = Reference(i)
        /\ up.outcome = "resolved" =>
               \A i \in 1..Len(up.files) : up.st[i] = "done"
C15_Witness ==
    /\ up.kind = "uploadMultipleImages"
    /\ up.outcome = "resolved"
    /\ up.order = <<2, 1>>
    /\ up.result[1] # up.result[2]

\* C16: after a deleteFolder(prefix) that the backend answered, no object
\* whose key starts with prefix is left, however many there were, one
\* deleteObjects request at most was sent, and the other objects are as
\* they were.
C16_DeleteFolderEmptiesPrefix ==
    (store.op = "deleteFolder" /\ store.reach) =>
        /\ \A d \in Folders : Matches(d, store.prefix) => bucket[d] = 0
        /\ \A d \in Folders : ~Matches(d, store.prefix) => bucket[d] = store.before[d]
        /\ store.batches <= 1

\* C17: a deleteFolder(prefix) that the backend answered, on a bucket in
\* which no key starts with prefix, sends no deleteObjects request, leaves
\* every object in place and raises nothing.
C17_EmptyListingIsNoOp ==
    ( /\ store.op = "deleteFolder"
      /\ store.reach
      /\ Total(Matching(store.before, store.prefix)) = 0 ) =>
        /\ store.batches = 0
        /\ bucket = store.before
        /\ store.fault = "no"
C17_Witness ==
    /\ store.op = "deleteFolder"
    /\ store.reach
    /\ store.prefix = F10 \o Slash
    /\ Total(Matching(store.before, store.prefix)) = 0
    /\ Total(bucket) > 0

\* C18: a send that returns has published one frame to
\* /app/chat.sendMessage whose body is the text of the payload it returns:
\* the room, sender type and photos of the call, the session's user id, and
\* as message the content when it is not empty, else the placeholder when
\* there are photos, else the empty text.
C18_PublishedIsReturned ==
    (last.op = "sendResume" /\ last.ret # NoSend) =>
        /\ last.pub # NoPub
        /\ last.pub.destination = "/app/chat.sendMessage"
        /\ JSONParse(last.pub.body) = last.ret
        /\ DOMAIN last.ret =
               {"chatRoomId", "message", "senderType", "senderId", "photos"}
        /\ last.ret.chatRoomId = last.call.chatRoomId
        /\ last.ret.senderType = last.call.senderType
        /\ last.ret.photos = last.call.photos
        /\ last.ret.senderId = userId
        /\ last.call.content # "" => last.ret.message = last.call.content
        /\ (last.call.content = "" /\ last.call.photos # <<>>) =>
               last.ret.message = PhotoPlaceholder
        /\ (last.call.content = "" /\ last.call.photos = <<>>) =>
               last.ret.message = ""
C18_Witness ==
    /\ last.op = "sendResume"
    /\ last.ret # NoSend
    /\ last.call.content = ""
    /\ last.call.photos # <<>>
    /\ last.ret.message = PhotoPlaceholder

\* C19: when a client has entered Connected (its onConnect has run) it
\* holds two subscriptions, one to /user/queue/errors and one to the private
\* queue of the user id given to the initialize call that created it.
C19_SubscribesOwnQueues ==
    last.op = "onConnect" =>
        /\ Len(clients[last.cl].subs) = 2
        /\ Range(clients[last.cl].subs) =
               {QueueOf(clients[last.cl].owner), ErrorTopic}

\* C20: a send whose existence check has been answered (not by 404)
\* either publishes, on the client it was called on, still connected, with
\* the user id the session had at the call as senderId, or publishes nothing
\* and notifies an 'error' event of code CONNECTION_ERROR, whatever was
\* called or closed while the check was pending.
C20_PendingSendPublishesOrReports ==
    (last.op = "sendResume" /\ last.check # "404") =>
        \/ /\ last.pub # NoPub
           /\ last.conn
           /\ last.pub.cl = last.call.cl
           /\ JSONParse(last.pub.body).senderId = last.call.user
        \/ /\ last.pub = NoPub
           /\ last.pass.event = "error"
           /\ last.pass.code = "CONNECTION_ERROR"

====
